---- MODULE Spec2Model ----
(***************************************************************************)
(* Model of the crud-python repository.                                    *)
(*                                                                         *)
(*   SpecTokens    : auth.py TokenManager, get_current_user and            *)
(*                   create_token_response                                 *)
(*   SpecPasswords : auth.py PasswordManager and the password helpers of   *)
(*                   main.py                                               *)
(*   Spec          : main.py, the FastAPI application over users_db        *)
(*                                                                         *)
(* Time is counted in minutes (the unit of ACCESS_TOKEN_EXPIRE_MINUTES).   *)
(* A password is its sequence of Unicode code points, an e-mail address    *)
(* its sequence of characters, a JWT the pair of its payload and its       *)
(* HS256 signature.                                                        *)
(***************************************************************************)
EXTENDS Integers, Sequences, FiniteSets, TLC

VARIABLES
    now,              \* datetime.utcnow(), in minutes
    ticks,            \* number of clock steps taken (bounds the model)
    tok,              \* auth.py: the token the caller holds
    issue,            \* auth.py: how tok was obtained
    hsh,              \* auth.py: the stored password hash the caller holds
    last,             \* auth.py: the last call and its outcome
    users_db,         \* main.py:132
    user_id_counter,  \* main.py:133
    held,             \* main.py: the token the client kept from its last login
    heldFor,          \* main.py: the login that returned held
    resp              \* main.py: the last request and its response

vars == <<now, ticks, tok, issue, hsh, last,
          users_db, user_id_counter, held, heldFor, resp>>
coreVars == <<tok, issue, hsh, last>>
appVars == <<users_db, user_id_counter, held, heldFor, resp>>

----------------------------------------------------------------------------
(* Bounds *)

MaxTicks == 2

----------------------------------------------------------------------------
(* Python values *)

None == "<None>"

\* dict.get(k): the value, or None when the key is absent
Get(d, k) == IF k \in DOMAIN d THEN d[k] ELSE None

\* d.copy() followed by .update(e)
Update(d, e) ==
    [k \in (DOMAIN d) \cup (DOMAIN e) |-> IF k \in DOMAIN e THEN e[k] ELSE d[k]]

EmptyDict == [k \in {} |-> None]

\* The dict objects of a call: a sequence of dicts, an object being named by
\* its index, so that two names for one object see each other's updates.
NoneRef == 0

\* a dict literal: a new object
dict_new(heap, d) == [heap |-> Append(heap, d), ref |-> Len(heap) + 1]

\* an assignment to_encode = data: another name for the same object
dict_alias(heap, ref) == [heap |-> heap, ref |-> ref]

\* data.copy(): a new object with the keys and values of the old one
dict_copy(heap, ref) == [heap |-> Append(heap, heap[ref]), ref |-> Len(heap) + 1]

\* d.update(e), in place
dict_update(heap, ref, e) == [heap EXCEPT ![ref] = Update(@, e)]

\* Optional[timedelta]: absent, or a number of minutes
NoDelta == [present |-> FALSE, minutes |-> 0]
timedelta(m) == [present |-> TRUE, minutes |-> m]

\* bool(expires_delta): None and timedelta(0) are both falsy
Truthy(delta) == delta.present /\ delta.minutes # 0

----------------------------------------------------------------------------
(* Configuration *)

AUTH_SECRET_KEY == "your-secret-key-change-in-production"
SECRET_KEY == "your-secret-key-change-this-in-production"
ATTACKER_KEY == "not-the-secret"
ACCESS_TOKEN_EXPIRE_MINUTES == 30
REFRESH_TOKEN_EXPIRE_DAYS == 7
MinutesPerDay == 1440
BcryptRounds == 12
BcryptMaxBytes == 72
MinPasswordLength == 8
DefaultExpireMinutes == 15

----------------------------------------------------------------------------
(* Passwords and bcrypt (passlib CryptContext) *)

Rep(c, n) == [i \in 1..n |-> c]

\* str.encode("utf-8") of one code point (code points below 2048)
Utf8Char(cp) ==
    IF cp < 128 THEN <<cp>> ELSE <<192 + (cp \div 64), 128 + (cp % 64)>>

\* the concatenation of the characters' encodings
RECURSIVE Utf8(_)
Utf8(s) ==
    IF Len(s) = 0 THEN <<>>
    ELSE IF Len(s) = 1 THEN Utf8Char(s[1])
    ELSE LET h == Len(s) \div 2
         IN Utf8(SubSeq(s, 1, h)) \o Utf8(SubSeq(s, h + 1, Len(s)))

\* the passwords the model's requests and calls use
Passwords ==
    { <<>>, Rep(97, 7), Rep(233, 7), Rep(97, 8), Rep(98, 8),
      Rep(97, 72), Rep(97, 73), Rep(233, 36), Rep(233, 37) }

\* their encodings, computed once
Utf8Table == [p \in Passwords |-> Utf8(p)]

\* str.encode("utf-8")
encode_utf8(s) == IF s \in Passwords THEN Utf8Table[s] ELSE Utf8(s)

Truncate(bytes, n) == IF Len(bytes) > n THEN SubSeq(bytes, 1, n) ELSE bytes

\* the bcrypt digest of a secret of at most 72 bytes under a salt and a cost
bcrypt_digest(secret, salt, rounds) == <<rounds, salt, secret>>

\* the salts bcrypt may draw
\* what the installed bcrypt does with a secret of more than 72 bytes:
\* older builds truncate it, newer builds raise ValueError
Backends == {"truncate", "raise"}

Salts == {"N9qo8uLOickgx2ZMRZoMye", "Xk7Fq1rT0pLw3bYc5dVu2e"}

MalformedHash == [scheme |-> "unknown", rounds |-> 0, salt |-> "", digest |-> <<>>]

Returned(v) == [ok |-> TRUE, value |-> v, exc |-> "", status |-> 0, detail |-> ""]
Raised(class, status, detail) ==
    [ok |-> FALSE, value |-> None, exc |-> class, status |-> status, detail |-> detail]

\* pwd_context.hash(password) with the salt the library drew
pwd_context_hash(password, salt, bk) ==
    LET bytes == encode_utf8(password) IN
    IF Len(bytes) > BcryptMaxBytes /\ bk = "raise"
    THEN Raised("ValueError", 0, "password cannot be longer than 72 bytes")
    ELSE Returned([scheme |-> "bcrypt", rounds |-> BcryptRounds, salt |-> salt,
                   digest |-> bcrypt_digest(Truncate(bytes, BcryptMaxBytes),
                                            salt, BcryptRounds)])

\* pwd_context.verify(plain_password, hashed_password)
pwd_context_verify(plain_password, hashed_password, bk) ==
    LET bytes == encode_utf8(plain_password) IN
    IF hashed_password.scheme # "bcrypt"
    THEN Raised("UnknownHashError", 0, "hash could not be identified")
    ELSE IF Len(bytes) > BcryptMaxBytes /\ bk = "raise"
    THEN Raised("ValueError", 0, "password cannot be longer than 72 bytes")
    ELSE Returned(hashed_password.digest =
                  bcrypt_digest(Truncate(bytes, BcryptMaxBytes),
                                hashed_password.salt, hashed_password.rounds))

\* auth.py PasswordManager.hash_password
PasswordManager_hash_password(password, salt, bk) ==
    IF password = <<>> \/ Len(password) < MinPasswordLength
    THEN Raised("ValueError", 0, "Password must be at least 8 characters long")
    ELSE pwd_context_hash(password, salt, bk)

\* auth.py PasswordManager.verify_password: any exception becomes False
PasswordManager_verify_password(plain_password, hashed_password, bk) ==
    LET r == pwd_context_verify(plain_password, hashed_password, bk) IN
    IF r.ok THEN r ELSE Returned(FALSE)

\* main.py hash_password
hash_password(password, salt, bk) ==
    LET password_bytes == encode_utf8(password) IN
    IF Len(password_bytes) > BcryptMaxBytes
    THEN Raised("HTTPException", 400, "Password too long (max 72 characters)")
    ELSE pwd_context_hash(password, salt, bk)

\* main.py verify_password
verify_password(plain_password, hashed_password, bk) ==
    pwd_context_verify(plain_password, hashed_password, bk)

----------------------------------------------------------------------------
(* JSON Web Tokens *)

\* HS256 signature of a payload under a key
Sign(payload, key) == <<key, payload>>

\* jwt.encode(payload, key, algorithm=ALGORITHM)
encode(payload, key) == [fmt |-> "jwt", payload |-> payload, sig |-> Sign(payload, key)]

GarbageToken == [fmt |-> "garbage", payload |-> EmptyDict, sig |-> <<>>]
EmptyToken == [fmt |-> "empty", payload |-> EmptyDict, sig |-> <<>>]

\* a decode that rejects a token only at the very instant of its exp
decode_expired_at_exp_only(token, key, t) ==
    IF token.fmt # "jwt" THEN Raised("InvalidTokenError", 0, "Not enough segments")
    ELSE IF token.sig # Sign(token.payload, key)
    THEN Raised("InvalidTokenError", 0, "Signature verification failed")
    ELSE IF "exp" \in DOMAIN token.payload /\ token.payload["exp"] = t
    THEN Raised("ExpiredSignatureError", 0, "Signature has expired")
    ELSE Returned(token.payload)

\* PyJWT decode(token, key, algorithms=[ALGORITHM]) at instant t:
\* format, then signature, then the exp claim (expired when exp <= now)
decode(token, key, t) ==
    IF token.fmt # "jwt" THEN Raised("InvalidTokenError", 0, "Not enough segments")
    ELSE IF token.sig # Sign(token.payload, key)
    THEN Raised("InvalidTokenError", 0, "Signature verification failed")
    ELSE IF "exp" \in DOMAIN token.payload /\ token.payload["exp"] <= t
    THEN Raised("ExpiredSignatureError", 0, "Signature has expired")
    ELSE Returned(token.payload)

\* python-jose jwt.decode at instant t (expired when exp < now); every
\* failure is a JWTError
jose_decode(token, key, t) ==
    IF token.fmt # "jwt" THEN Raised("JWTError", 0, "Not enough segments")
    ELSE IF token.sig # Sign(token.payload, key)
    THEN Raised("JWTError", 0, "Signature verification failed")
    ELSE IF "exp" \in DOMAIN token.payload /\ token.payload["exp"] < t
    THEN Raised("JWTError", 0, "Signature has expired")
    ELSE Returned(token.payload)

\* auth.py TokenManager.create_access_token at instant t; data names the
\* caller's dict. Yields the objects after the call and the token returned.
TokenManager_create_access_token(heap, data, expires_delta, t) ==
    LET to_encode == dict_copy(heap, data)
        expire == IF Truthy(expires_delta)
                  THEN t + expires_delta.minutes
                  ELSE t + ACCESS_TOKEN_EXPIRE_MINUTES
        updated == dict_update(to_encode.heap, to_encode.ref,
                               [exp |-> expire, type |-> "access"])
    IN [heap |-> updated,
        value |-> encode(updated[to_encode.ref], AUTH_SECRET_KEY)]

\* a refresh token that is typed like an access token
TokenManager_create_refresh_token_typed_access(heap, data, t) ==
    LET to_encode == dict_copy(heap, data)
        expire == t + REFRESH_TOKEN_EXPIRE_DAYS * MinutesPerDay
        updated == dict_update(to_encode.heap, to_encode.ref,
                               [exp |-> expire, type |-> "access"])
    IN [heap |-> updated,
        value |-> encode(updated[to_encode.ref], AUTH_SECRET_KEY)]

\* auth.py TokenManager.create_refresh_token at instant t
TokenManager_create_refresh_token(heap, data, t) ==
    LET to_encode == dict_copy(heap, data)
        expire == t + REFRESH_TOKEN_EXPIRE_DAYS * MinutesPerDay
        updated == dict_update(to_encode.heap, to_encode.ref,
                               [exp |-> expire, type |-> "refresh"])
    IN [heap |-> updated,
        value |-> encode(updated[to_encode.ref], AUTH_SECRET_KEY)]

InvalidTypeDetail(token_type) ==
    IF token_type = "access" THEN "Invalid token type. Expected 'access'"
    ELSE "Invalid token type. Expected 'refresh'"

\* the body of the try block of verify_token (auth.py:150-170)
verify_token_try(token, token_type, t) ==
    LET d == decode(token, AUTH_SECRET_KEY, t) IN
    IF ~d.ok THEN d
    ELSE IF Get(d.value, "type") # token_type
    THEN Raised("HTTPException", 401, InvalidTypeDetail(token_type))
    ELSE IF Get(d.value, "sub") = None
    THEN Raised("HTTPException", 401, "Invalid token: missing user identifier")
    ELSE Returned(d.value)

\* the except clauses of verify_token (auth.py:172-192), tried in order;
\* HTTPException is an Exception, so the last clause catches the two
\* HTTPExceptions raised inside the try block
verify_token_except(r) ==
    IF r.exc = "ExpiredSignatureError"
    THEN Raised("HTTPException", 401, "Token has expired")
    ELSE IF r.exc = "InvalidTokenError"
    THEN Raised("HTTPException", 401, "Invalid token")
    ELSE Raised("HTTPException", 401, "Could not validate credentials")

\* auth.py TokenManager.verify_token at instant t
verify_token(token, token_type, t) ==
    LET r == verify_token_try(token, token_type, t) IN
    IF r.ok THEN r ELSE verify_token_except(r)

\* auth.py get_current_user: credentials is None or carries a token
auth_get_current_user(has_credentials, token, t) ==
    IF ~has_credentials THEN Raised("HTTPException", 403, "Not authenticated")
    ELSE verify_token(token, "access", t)

\* Optional[Dict]: None, or a dict
NoClaims == [present |-> FALSE, dict |-> EmptyDict]
SomeClaims(d) == [present |-> TRUE, dict |-> d]

\* bool(additional_claims): None and {} are both falsy
TruthyDict(heap, ref) == ref # NoneRef /\ DOMAIN heap[ref] # {}

\* auth.py create_token_response; additional_claims is None or names the
\* caller's dict. Yields the objects after the call and the dict returned.
create_token_response(heap, user_id, additional_claims, t) ==
    LET claims == dict_new(heap, [sub |-> user_id])
        merged == IF TruthyDict(claims.heap, additional_claims)
                  THEN dict_update(claims.heap, claims.ref,
                                   claims.heap[additional_claims])
                  ELSE claims.heap
        access_token ==
            TokenManager_create_access_token(merged, claims.ref, NoDelta, t)
        refresh_token ==
            TokenManager_create_refresh_token(access_token.heap, claims.ref, t)
    IN [heap |-> refresh_token.heap,
        value |-> [access_token |-> access_token.value,
                   refresh_token |-> refresh_token.value,
                   token_type |-> "bearer"]]

----------------------------------------------------------------------------
(* Inputs of the auth.py operations *)

ClaimSets ==
    { [sub |-> "u1"],
      [sub |-> "", type |-> "refresh", exp |-> 0],
      [role |-> "admin"],
      [sub |-> "u2", role |-> "admin"] }

Deltas == {NoDelta, timedelta(0 - 1), timedelta(0), timedelta(5)}

TokenTypes == {"access", "refresh"}

Subjects == {"42", "u1", ""}

ExtraClaims == {NoClaims, SomeClaims(EmptyDict), SomeClaims([role |-> "admin"]),
                SomeClaims([sub |-> "u2"])}

TickSteps == {1, ACCESS_TOKEN_EXPIRE_MINUTES, REFRESH_TOKEN_EXPIRE_DAYS * MinutesPerDay}

NoIssue == [by |-> "none", data |-> EmptyDict, ttl |-> NoDelta, at |-> 0]

----------------------------------------------------------------------------
(* State after import of both modules *)

Init ==
    /\ now = 0
    /\ ticks = 0
    /\ tok = GarbageToken
    /\ issue = NoIssue
    /\ hsh = MalformedHash
    /\ last = [op |-> "none"]
    /\ users_db = EmptyDict
    /\ user_id_counter = 1
    /\ held = GarbageToken
    /\ heldFor = 0
    /\ resp = [op |-> "none", status |-> 0, detail |-> "", uid |-> 0]

\* the wall clock advances
Tick ==
    /\ ticks < MaxTicks
    /\ \E d \in TickSteps : now' = now + d
    /\ ticks' = ticks + 1
    /\ UNCHANGED <<coreVars, appVars>>

----------------------------------------------------------------------------
(* auth.py: TokenManager *)

CreateAccessToken ==
    \E data \in ClaimSets, delta \in Deltas :
        LET r == TokenManager_create_access_token(<<data>>, 1, delta, now)
        IN
        /\ tok' = r.value
        /\ issue' = [by |-> "access", data |-> data, ttl |-> delta, at |-> now]
        /\ last' = [op |-> "create_access_token", at |-> now,
                    data |-> data, data_after |-> r.heap[1]]
        /\ UNCHANGED <<now, ticks, hsh, appVars>>

CreateRefreshToken ==
    \E data \in ClaimSets :
        LET r == TokenManager_create_refresh_token(<<data>>, 1, now)
        IN
        /\ tok' = r.value
        /\ issue' = [by |-> "refresh", data |-> data, ttl |-> NoDelta, at |-> now]
        /\ last' = [op |-> "create_refresh_token", at |-> now,
                    data |-> data, data_after |-> r.heap[1]]
        /\ UNCHANGED <<now, ticks, hsh, appVars>>

\* somebody without the secret alters the token, re-signs it, or sends noise
ForgeToken ==
    /\ tok.fmt = "jwt"
    /\ issue.by \in TokenTypes
    /\ \E t \in { [tok EXCEPT !.payload = Update(@, [sub |-> "root"])],
                  encode(tok.payload, ATTACKER_KEY),
                  GarbageToken } : tok' = t
    /\ issue' = [issue EXCEPT !.by = "forged"]
    /\ last' = [op |-> "forge", at |-> now]
    /\ UNCHANGED <<now, ticks, hsh, appVars>>

VerifyToken ==
    \E token_type \in TokenTypes :
        /\ last' = [op |-> "verify_token", token_type |-> token_type, at |-> now,
                    res |-> verify_token(tok, token_type, now)]
        /\ UNCHANGED <<now, ticks, tok, issue, hsh, appVars>>

AuthGetCurrentUser ==
    \E has_credentials \in BOOLEAN :
        /\ last' = [op |-> "get_current_user", has_credentials |-> has_credentials,
                    at |-> now,
                    res |-> auth_get_current_user(has_credentials, tok, now)]
        /\ UNCHANGED <<now, ticks, tok, issue, hsh, appVars>>

CreateTokenResponse ==
    \E user_id \in Subjects, additional_claims \in ExtraClaims :
        LET heap == IF additional_claims.present
                    THEN <<additional_claims.dict>> ELSE <<>>
            ref == IF additional_claims.present THEN 1 ELSE NoneRef
            r == create_token_response(heap, user_id, ref, now)
        IN
        /\ last' = [op |-> "create_token_response", user_id |-> user_id,
                    additional_claims |-> additional_claims, at |-> now,
                    additional_claims_after |->
                        IF additional_claims.present
                        THEN SomeClaims(r.heap[1]) ELSE NoClaims,
                    res |-> r.value]
        /\ UNCHANGED <<now, ticks, tok, issue, hsh, appVars>>

NextTokens ==
    \/ Tick
    \/ CreateAccessToken
    \/ CreateRefreshToken
    \/ ForgeToken
    \/ VerifyToken
    \/ AuthGetCurrentUser
    \/ CreateTokenResponse

SpecTokens == Init /\ [][NextTokens]_vars

----------------------------------------------------------------------------
(* auth.py PasswordManager and main.py password helpers, called directly *)

Impls == {"PasswordManager", "main"}

HashPassword ==
    \E impl \in Impls, password \in Passwords, salt \in Salts, bk \in Backends :
        LET r == IF impl = "main" THEN hash_password(password, salt, bk)
                 ELSE PasswordManager_hash_password(password, salt, bk)
        IN /\ last' = [op |-> "hash_password", impl |-> impl, bk |-> bk,
                       password |-> password, res |-> r]
           /\ hsh' = IF r.ok THEN r.value ELSE hsh
           /\ UNCHANGED <<now, ticks, tok, issue, appVars>>

VerifyPassword ==
    \E impl \in Impls, plain_password \in Passwords,
       hashed_password \in {hsh, MalformedHash}, bk \in Backends :
        LET r == IF impl = "main"
                 THEN verify_password(plain_password, hashed_password, bk)
                 ELSE PasswordManager_verify_password(plain_password,
                                                      hashed_password, bk)
        IN /\ last' = [op |-> "verify_password", impl |-> impl, bk |-> bk,
                       password |-> plain_password,
                       hashed_password |-> hashed_password, res |-> r]
           /\ UNCHANGED <<now, ticks, tok, issue, hsh, appVars>>

NextPasswords ==
    \/ HashPassword
    \/ VerifyPassword

SpecPasswords == Init /\ [][NextPasswords]_vars

----------------------------------------------------------------------------
(* main.py: helpers *)

\* str.lower() of one character
LowerChar(c) ==
    CASE c = "A" -> "a"
      [] c = "B" -> "b"
      [] c = "E" -> "e"
      [] c = "R" -> "r"
      [] OTHER -> c

\* str.lower()
lower(str) == [i \in DOMAIN str |-> LowerChar(str[i])]

Min(S) == CHOOSE x \in S : \A y \in S : x <= y

\* main.py create_access_token at instant t
create_access_token(data, expires_delta, t) ==
    LET expire == IF Truthy(expires_delta)
                  THEN t + expires_delta.minutes
                  ELSE t + DefaultExpireMinutes
        to_encode == Update(data, [exp |-> expire])
    IN encode(to_encode, SECRET_KEY)

\* an Authorization header "<scheme>[ <token>]", or no header
NoHeader == [present |-> FALSE, scheme |-> <<>>, sep |-> FALSE, token |-> GarbageToken]
AuthHeader(scheme, sep, token) ==
    [present |-> TRUE, scheme |-> scheme, sep |-> sep, token |-> token]

BearerPrefix == <<"b", "e", "a", "r", "e", "r">>

\* auth_header.lower().startswith("bearer ")
StartsWithBearer(auth_header) ==
    lower(auth_header.scheme) = BearerPrefix /\ auth_header.sep

HTTPError(status, detail) == Raised("HTTPException", status, detail)

credentials_exception ==
    HTTPError(401, "Invalid authentication credentials. Please log in again.")

\* next(u for u in users_db.values() if ...): users_db keeps insertion
\* order, which is the order of the ids
FirstUser(db, ids) == db[Min(ids)]

\* get_current_user without the check of the scheme
get_current_user_any_scheme(auth_header, db, t) ==
    IF ~auth_header.present
    THEN credentials_exception
    ELSE LET d == jose_decode(auth_header.token, SECRET_KEY, t) IN
         IF ~d.ok THEN credentials_exception
         ELSE IF "sub" \notin DOMAIN d.value \/ d.value["sub"] = <<>>
         THEN credentials_exception
         ELSE LET email == d.value["sub"]
                  found == {id \in DOMAIN db : lower(db[id].email) = lower(email)}
              IN IF found = {}
                 THEN HTTPError(401, "User not found or credentials invalid.")
                 ELSE Returned(FirstUser(db, found))

\* main.py get_current_user
get_current_user(auth_header, db, t) ==
    IF ~auth_header.present \/ ~StartsWithBearer(auth_header)
    THEN credentials_exception
    ELSE LET d == jose_decode(auth_header.token, SECRET_KEY, t) IN
         IF ~d.ok THEN credentials_exception
         ELSE IF "sub" \notin DOMAIN d.value \/ d.value["sub"] = <<>>
         THEN credentials_exception
         ELSE LET email == d.value["sub"]
                  found == {id \in DOMAIN db : lower(db[id].email) = lower(email)}
              IN IF found = {}
                 THEN HTTPError(401, "User not found or credentials invalid.")
                 ELSE Returned(FirstUser(db, found))

\* an exception that is not an HTTPException leaves the handler
Unhandled(r) ==
    IF r.exc = "HTTPException" THEN r
    ELSE Raised(r.exc, 500, "Internal Server Error")

Response(status, body) ==
    [ok |-> TRUE, value |-> body, exc |-> "", status |-> status, detail |-> ""]

\* the User response model of a stored record
UserOut(u) ==
    [id |-> u.id, email |-> u.email, full_name |-> u.full_name,
     created_at |-> u.created_at]

----------------------------------------------------------------------------
(* main.py: route handlers, as functions of the store and the request *)

\* POST /register
register(user, db, counter, salt, t, bk) ==
    IF \E id \in DOMAIN db : db[id].email = user.email
    THEN [db |-> db, counter |-> counter,
          res |-> HTTPError(400, "Email already registered")]
    ELSE LET user_id == counter
             h == hash_password(user.password, salt, bk)
             new_user == [id |-> user_id, email |-> user.email,
                          full_name |-> user.full_name,
                          hashed_password |-> h.value, created_at |-> t]
         IN IF ~h.ok
            THEN [db |-> db, counter |-> counter + 1, res |-> Unhandled(h)]
            ELSE [db |-> [k \in DOMAIN db \cup {user_id} |->
                             IF k = user_id THEN new_user ELSE db[k]],
                  counter |-> counter + 1,
                  res |-> Response(201, UserOut(new_user))]

\* POST /login
login(user_credentials, db, t, bk) ==
    LET found == {id \in DOMAIN db : db[id].email = user_credentials.email}
        failed == HTTPError(401, "Incorrect email or password")
    IN IF found = {} THEN failed
       ELSE LET user == FirstUser(db, found)
                v == verify_password(user_credentials.password,
                                     user.hashed_password, bk)
            IN IF ~v.ok THEN Unhandled(v)
               ELSE IF ~v.value THEN failed
               ELSE Response(200,
                      [access_token |->
                           create_access_token([sub |-> user.email],
                               timedelta(ACCESS_TOKEN_EXPIRE_MINUTES), t),
                       token_type |-> "bearer"])

\* GET /users
list_users(current_user, db) ==
    Response(200, [id \in DOMAIN db |-> UserOut(db[id])])

\* GET /users/{user_id}
get_user(user_id, current_user, db) ==
    IF user_id \notin DOMAIN db THEN HTTPError(404, "User not found")
    ELSE Response(200, UserOut(db[user_id]))

\* GET /users/profile/me
get_current_user_profile(current_user) ==
    Response(200, UserOut(current_user))

\* Optional fields of UserUpdate: None is the empty string
NoEmail == <<>>
NoName == ""

\* an update_user that does not look for the new email among the stored users
update_user_email_unchecked(user_id, user_update, current_user, db) ==
    IF user_id \notin DOMAIN db
    THEN [db |-> db, res |-> HTTPError(404, "User not found")]
    ELSE IF current_user.id # user_id
    THEN [db |-> db, res |-> HTTPError(403, "You can only update your own profile")]
    ELSE LET user == db[user_id]
             new_email == user_update.email # NoEmail
                          /\ user_update.email # user.email
             u1 == IF new_email
                   THEN [user EXCEPT !.email = user_update.email]
                   ELSE user
             u2 == IF user_update.full_name # NoName
                   THEN [u1 EXCEPT !.full_name = user_update.full_name]
                   ELSE u1
         IN [db |-> [db EXCEPT ![user_id] = u2],
             res |-> Response(200, UserOut(u2))]

\* PUT /users/{user_id}
update_user(user_id, user_update, current_user, db) ==
    IF user_id \notin DOMAIN db
    THEN [db |-> db, res |-> HTTPError(404, "User not found")]
    ELSE IF current_user.id # user_id
    THEN [db |-> db, res |-> HTTPError(403, "You can only update your own profile")]
    ELSE LET user == db[user_id]
             new_email == user_update.email # NoEmail
                          /\ user_update.email # user.email
         IN IF new_email /\ \E id \in DOMAIN db : db[id].email = user_update.email
            THEN [db |-> db, res |-> HTTPError(400, "Email already in use")]
            ELSE LET u1 == IF new_email
                           THEN [user EXCEPT !.email = user_update.email]
                           ELSE user
                     u2 == IF user_update.full_name # NoName
                           THEN [u1 EXCEPT !.full_name = user_update.full_name]
                           ELSE u1
                 IN [db |-> [db EXCEPT ![user_id] = u2],
                     res |-> Response(200, UserOut(u2))]

\* DELETE /users/{user_id}
delete_user(user_id, current_user, db) ==
    IF user_id \notin DOMAIN db
    THEN [db |-> db, res |-> HTTPError(404, "User not found")]
    ELSE IF current_user.id # user_id
    THEN [db |-> db, res |-> HTTPError(403, "You can only delete your own profile")]
    ELSE [db |-> [k \in DOMAIN db \ {user_id} |-> db[k]],
          res |-> Response(204, None)]

\* a protected route once Depends(get_current_user) has run: its failure is
\* the response, and the handler runs only when it returned a user
Dispatch(route, user_id, user_update, cu, db) ==
    IF ~cu.ok THEN [db |-> db, res |-> cu, uid |-> 0]
    ELSE LET o == CASE route = "list_users" ->
                         [db |-> db, res |-> list_users(cu.value, db)]
                    [] route = "get_user" ->
                         [db |-> db, res |-> get_user(user_id, cu.value, db)]
                    [] route = "get_current_user_profile" ->
                         [db |-> db, res |-> get_current_user_profile(cu.value)]
                    [] route = "update_user" ->
                         update_user(user_id, user_update, cu.value, db)
                    [] route = "delete_user" ->
                         delete_user(user_id, cu.value, db)
         IN [db |-> o.db, res |-> o.res, uid |-> cu.value.id]

\* a request to one of the five protected routes
Protected(route, user_id, user_update, auth_header, db, t) ==
    Dispatch(route, user_id, user_update, get_current_user(auth_header, db, t), db)

\* GET /health
health_check(t) == Response(200, [status |-> "ok", timestamp |-> t])

----------------------------------------------------------------------------
(* main.py: requests *)

MaxRegistrations == 2
MaxNow == 31

Emails == { <<"a", "@", "b">>, <<"A", "@", "b">>, <<"c", "@", "b">> }
AppPasswords == { Rep(97, 8), Rep(97, 72), Rep(97, 73) }
RegisterPasswords == { Rep(97, 72), Rep(97, 73) }
FullNames == {"Jane Doe"}
NewNames == {NoName, "Jane Doe II"}
UserIds == 1..MaxRegistrations
AppSalts == {"N9qo8uLOickgx2ZMRZoMye"}
AppTickStep == ACCESS_TOKEN_EXPIRE_MINUTES + 1
NoUpdate == [email |-> NoEmail, full_name |-> NoName]
UserUpdates == [email : Emails \cup {NoEmail}, full_name : NewNames]

ProtectedRoutes ==
    {"list_users", "get_user", "get_current_user_profile", "update_user",
     "delete_user"}

HeaderKinds == {"none", "basic", "nosep", "bearer", "Bearer", "forged", "nosub"}
SentHeaderKinds == {"none", "Bearer"}

\* the Authorization header a client holding token t can send at instant at
Header(kind, t, at) ==
    CASE kind = "none" -> NoHeader
      [] kind = "basic" -> AuthHeader(<<"B", "a", "s", "i", "c">>, TRUE, t)
      [] kind = "nosep" -> AuthHeader(<<"B", "e", "a", "r", "e", "r">>, FALSE, t)
      [] kind = "bearer" -> AuthHeader(<<"b", "e", "a", "r", "e", "r">>, TRUE, t)
      [] kind = "Bearer" -> AuthHeader(<<"B", "e", "a", "r", "e", "r">>, TRUE, t)
      [] kind = "forged" -> AuthHeader(<<"B", "e", "a", "r", "e", "r">>, TRUE,
                                       encode(t.payload, ATTACKER_KEY))
      [] kind = "nosub" -> AuthHeader(<<"B", "e", "a", "r", "e", "r">>, TRUE,
                                      create_access_token(EmptyDict, NoDelta, at))

Summary(op, r, uid) ==
    [op |-> op, status |-> r.status, detail |-> r.detail, uid |-> uid]

TickApp ==
    /\ now + AppTickStep <= MaxNow
    /\ now' = now + AppTickStep
    /\ UNCHANGED <<ticks, coreVars, appVars>>

Register ==
    \E email \in Emails, password \in RegisterPasswords,
       full_name \in FullNames, salt \in AppSalts, bk \in Backends :
        LET o == register([email |-> email, full_name |-> full_name,
                           password |-> password],
                          users_db, user_id_counter, salt, now, bk)
        IN /\ user_id_counter <= MaxRegistrations
           /\ users_db' = o.db
           /\ user_id_counter' = o.counter
           /\ resp' = Summary("register", o.res, 0)
           /\ UNCHANGED <<now, ticks, coreVars, held, heldFor>>

Login ==
    \E email \in Emails, password \in AppPasswords, bk \in Backends :
        LET r == login([email |-> email, password |-> password],
                       users_db, now, bk)
        IN /\ resp' = Summary("login", r, 0)
           /\ IF r.ok
              THEN /\ held' = r.value.access_token
                   /\ heldFor' = Min({id \in DOMAIN users_db :
                                         users_db[id].email = email})
              ELSE UNCHANGED <<held, heldFor>>
           /\ UNCHANGED <<now, ticks, coreVars, users_db, user_id_counter>>

\* a request to one of the protected routes
Request(route, ids, updates) ==
    \E kind \in SentHeaderKinds :
        LET cu == get_current_user(Header(kind, held, now), users_db, now) IN
        \E user_id \in ids, user_update \in updates :
            LET o == Dispatch(route, user_id, user_update, cu, users_db)
            IN /\ users_db' = o.db
               /\ resp' = Summary(route, o.res, o.uid)
               /\ UNCHANGED <<now, ticks, coreVars, user_id_counter,
                              held, heldFor>>

ListUsers == Request("list_users", {0}, {NoUpdate})

GetUser == Request("get_user", UserIds, {NoUpdate})

GetProfile == Request("get_current_user_profile", {0}, {NoUpdate})

UpdateUser == Request("update_user", UserIds, UserUpdates)

DeleteUser == Request("delete_user", UserIds, {NoUpdate})

Health ==
    /\ resp' = Summary("health_check", health_check(now), 0)
    /\ UNCHANGED <<now, ticks, coreVars, users_db, user_id_counter,
                   held, heldFor>>

Next ==
    \/ TickApp
    \/ Register
    \/ Login
    \/ ListUsers
    \/ GetUser
    \/ GetProfile
    \/ UpdateUser
    \/ DeleteUser
    \/ Health

Spec == Init /\ [][Next]_vars

----------------------------------------------------------------------------
(* Claims about TokenManager (SpecTokens) *)

\* the token in hand is as create_access_token/create_refresh_token signed it
Genuine == issue.by \in TokenTypes

\* C1: a token freshly issued for a claim set with subject s by
\* create_access_token(c) or create_refresh_token(c), verified before its
\* expiry, yields sub = s under its own type and the type-mismatch failure
\* (401 "Invalid token type. Expected '<T>'") under the other type.
C1_RoundTripAndTypeMismatch ==
    (/\ last.op = "verify_token"
     /\ Genuine
     /\ "sub" \in DOMAIN issue.data
     /\ ~issue.ttl.present
     /\ last.at < tok.payload["exp"])
    => IF last.token_type = issue.by
       THEN last.res.ok /\ last.res.value["sub"] = issue.data["sub"]
       ELSE /\ ~last.res.ok
            /\ last.res.detail = InvalidTypeDetail(last.token_type)

\* which of the four conditions of verify_token a token meets at instant t
FailureReason(token, token_type, t) ==
    IF token.fmt # "jwt" \/ token.sig # Sign(token.payload, AUTH_SECRET_KEY)
    THEN "invalid token"
    ELSE IF "exp" \in DOMAIN token.payload /\ token.payload["exp"] <= t
    THEN "expired"
    ELSE IF Get(token.payload, "type") # token_type THEN "invalid type"
    ELSE IF "sub" \notin DOMAIN token.payload THEN "missing subject"
    ELSE "none"

\* C2: two verify_token calls rejected for different ones of the four
\* conditions hand different failure values (status, detail) to the caller.
C2_FailuresDistinguishable ==
    [][(/\ last.op = "verify_token" /\ last'.op = "verify_token"
        /\ ~last.res.ok /\ ~last'.res.ok
        /\ FailureReason(tok, last.token_type, last.at)
             # FailureReason(tok', last'.token_type, last'.at))
       => <<last.res.status, last.res.detail>>
            # <<last'.res.status, last'.res.detail>>]_vars

\* C3: a genuine token whose exp is in the past is rejected as expired, and
\* so is, at any later instant, an access token issued with a zero or
\* negative caller-supplied TTL.
C3_PastExpiryIsExpired ==
    (/\ last.op = "verify_token"
     /\ Genuine
     /\ \/ tok.payload["exp"] < last.at
        \/ /\ issue.by = "access" /\ last.token_type = "access"
           /\ issue.ttl.present /\ issue.ttl.minutes <= 0
           /\ last.at > issue.at)
    => ~last.res.ok /\ last.res.detail = "Token has expired"

\* C7: create_token_response(s) returns token_type "bearer" and two
\* non-empty tokens that verify as access and as refresh, typed "access" and
\* "refresh", both with sub = s.
C7_TokenResponse ==
    (/\ last.op = "create_token_response"
     /\ "sub" \notin DOMAIN last.additional_claims.dict)
    => LET a == verify_token(last.res.access_token, "access", last.at)
           r == verify_token(last.res.refresh_token, "refresh", last.at)
       IN /\ last.res.token_type = "bearer"
          /\ last.res.access_token # EmptyToken
          /\ last.res.refresh_token # EmptyToken
          /\ a.ok /\ r.ok
          /\ a.value["type"] = "access" /\ r.value["type"] = "refresh"
          /\ a.value["sub"] = last.user_id /\ r.value["sub"] = last.user_id

C7_Witness ==
    /\ last.op = "create_token_response"
    /\ last.user_id = "42"
    /\ ~last.additional_claims.present
    /\ now > 0

\* verify_token turned the token away as expired
RejectedAsExpired(r) == ~r.ok /\ r.detail = "Token has expired"

\* C11: for the token in hand, as signed by create_access_token or
\* create_refresh_token, and each expected type, over every step that leaves
\* the token in hand (the clock advancing, further tokens being issued,
\* verifications): once verify_token rejects it as expired it rejects it as
\* expired after the step; under its own type the outcome of verify_token
\* after the step is the outcome before it as long as the step ends before
\* exp, and is success when the token has a subject; under the other type
\* it is rejected before and after the step, before and after exp.
C11_TokenLifecycle ==
    [][(tok' = tok /\ Genuine)
       => \A token_type \in TokenTypes :
            LET before == verify_token(tok, token_type, now)
                after == verify_token(tok, token_type, now')
            IN /\ RejectedAsExpired(before) => RejectedAsExpired(after)
               /\ (token_type = tok.payload["type"]
                   /\ now' < tok.payload["exp"])
                  => /\ after = before
                     /\ "sub" \in DOMAIN tok.payload => after.ok
               /\ token_type # tok.payload["type"]
                  => ~before.ok /\ ~after.ok]_vars

\* a token with a subject was verified under its own type at an instant
\* later than its exp and rejected as expired, after further tokens had been
\* issued
C11_Witness ==
    /\ last.op = "verify_token"
    /\ Genuine
    /\ "sub" \in DOMAIN tok.payload
    /\ last.token_type = tok.payload["type"]
    /\ issue.at < tok.payload["exp"]
    /\ last.at > tok.payload["exp"]
    /\ RejectedAsExpired(last.res)

\* C12: after create_access_token(data) and create_refresh_token(data) the
\* caller's dict has exactly the keys and values it had before the call (no
\* exp and no type key added), and after create_token_response the
\* additional_claims argument is what it was before the call.
C12_InputMappingUnchanged ==
    /\ last.op \in {"create_access_token", "create_refresh_token"}
       => /\ last.data_after = last.data
          /\ DOMAIN last.data_after = DOMAIN last.data
    /\ last.op = "create_token_response"
       => last.additional_claims_after = last.additional_claims

\* a token was issued from a caller's dict that has neither exp nor type,
\* and the token carries both
C12_Witness ==
    /\ last.op \in {"create_access_token", "create_refresh_token"}
    /\ DOMAIN last.data = {"sub", "role"}
    /\ {"exp", "type"} \subseteq DOMAIN tok.payload
    /\ tok.payload["sub"] = last.data["sub"]

----------------------------------------------------------------------------
(* Claims about the password functions (SpecPasswords) *)

InvalidPassword(p) ==
    \/ p = <<>>
    \/ Len(p) < MinPasswordLength
    \/ Len(encode_utf8(p)) > BcryptMaxBytes

ValidationError(r) == ~r.ok /\ r.exc \in {"ValueError", "HTTPException"}

\* C8: hash_password fails with a validation error exactly for the passwords
\* that are empty, shorter than 8 characters or longer than 72 bytes, and
\* returns a hash for every other password.
C8_HashPasswordValidates ==
    last.op = "hash_password"
    => IF InvalidPassword(last.password)
       THEN ValidationError(last.res)
       ELSE last.res.ok /\ last.res.value.scheme = "bcrypt"

\* C9: verify_password never raises; it returns a boolean, False whenever
\* the underlying verification errors out, True only on a match.
C9_VerifyPasswordNeverRaises ==
    last.op = "verify_password"
    => /\ last.res.ok
       /\ last.res.value \in BOOLEAN
       /\ ~pwd_context_verify(last.password, last.hashed_password, last.bk).ok
            => last.res.value = FALSE

----------------------------------------------------------------------------
(* Claims about the application (Spec) *)

\* the Authorization header is present and has the Bearer scheme
BearerScheme(h) ==
    h.present /\ h.sep /\ Len(h.scheme) = 6
    /\ \A i \in 1..6 : LowerChar(h.scheme[i]) = BearerPrefix[i]

\* the token is a JWT signed with the application's key and not expired
TokenVerifies(token, t) ==
    /\ token.fmt = "jwt"
    /\ token.sig = <<SECRET_KEY, token.payload>>
    /\ "exp" \in DOMAIN token.payload => token.payload["exp"] >= t

\* the token's subject resolves to a stored user
SubjectResolves(token, db) ==
    /\ "sub" \in DOMAIN token.payload
    /\ \E id \in DOMAIN db : lower(db[id].email) = lower(token.payload["sub"])

Authenticated(h, db, t) ==
    BearerScheme(h) /\ TokenVerifies(h.token, t) /\ SubjectResolves(h.token, db)

\* the requests a client holding the token `held` can send to a route
RouteIds(route) == IF route \in {"get_user", "update_user", "delete_user"}
                   THEN UserIds ELSE {0}
RouteUpdates(route) == IF route = "update_user" THEN UserUpdates ELSE {NoUpdate}

\* C4: a request to a protected route that does not carry a Bearer header
\* whose token verifies and whose subject resolves to a stored user ends in
\* 401 with no body and leaves users_db unchanged; register, login and
\* health answer without any token.
C4_ProtectedNeedAuthentication ==
    /\ \A kind \in HeaderKinds :
         LET h == Header(kind, held, now) IN
         ~Authenticated(h, users_db, now)
         => \A route \in ProtectedRoutes :
              \A user_id \in RouteIds(route),
                 user_update \in RouteUpdates(route) :
                 LET o == Protected(route, user_id, user_update, h,
                                    users_db, now)
                 IN /\ o.res.status = 401
                    /\ ~o.res.ok
                    /\ o.db = users_db
    /\ health_check(now).status = 200
    /\ \A email \in Emails, bk \in Backends :
         /\ register([email |-> email, full_name |-> "Jane Doe",
                      password |-> Rep(97, 72)], users_db, user_id_counter,
                     "N9qo8uLOickgx2ZMRZoMye", now, bk).res.status \in {201, 400}
         /\ LET r == login([email |-> email, password |-> Rep(97, 72)],
                           users_db, now, bk)
            IN r.status = 200 \/ r.detail = "Incorrect email or password"

\* a request to delete a stored user was turned away at authentication
C4_Witness ==
    /\ resp.op = "delete_user"
    /\ resp.status = 401
    /\ resp.detail = "Invalid authentication credentials. Please log in again."
    /\ DOMAIN users_db # {}
    /\ held.fmt = "jwt"

\* C5: once the user a login token was returned for is deleted, and while no
\* stored user has the token's email, every protected request presenting the
\* token ends in 401.
C5_DeletedUserTokenRejected ==
    (/\ held.fmt = "jwt"
     /\ heldFor # 0
     /\ heldFor \notin DOMAIN users_db
     /\ ~\E id \in DOMAIN users_db : users_db[id].email = held.payload["sub"])
    => \A route \in ProtectedRoutes :
         \A user_id \in RouteIds(route), user_update \in RouteUpdates(route) :
            Protected(route, user_id, user_update, Header("Bearer", held, now),
                      users_db, now).res.status = 401

\* C6: two requests to the same protected route that are both rejected at
\* authentication get the same status code and the same body.
C6_RejectionsIndistinguishable ==
    \A route \in ProtectedRoutes, k1 \in HeaderKinds, k2 \in HeaderKinds :
        LET o1 == Protected(route, 1, NoUpdate, Header(k1, held, now), users_db, now)
            o2 == Protected(route, 1, NoUpdate, Header(k2, held, now), users_db, now)
        IN (o1.uid = 0 /\ o2.uid = 0)
           => /\ o1.res.status = o2.res.status
              /\ o1.res.detail = o2.res.detail

\* the bytes of the password a stored user registered with
RegisteredBytes(u) == u.hashed_password.digest[3]

\* C10: while a registered user keeps its email, login with the registered
\* password returns a bearer token whose subject is that email, login with
\* any other password fails with 401, and a failed login looks the same for
\* an unknown email and for a wrong password.
C10_LoginMatchesRegistration ==
    \A id \in DOMAIN users_db, q \in AppPasswords, bk \in Backends :
        LET u == users_db[id]
            r == login([email |-> u.email, password |-> q], users_db, now, bk)
        IN /\ IF encode_utf8(q) = RegisteredBytes(u)
              THEN /\ r.status = 200
                   /\ r.value.token_type = "bearer"
                   /\ r.value.access_token.payload["sub"] = u.email
              ELSE r.status = 401
           /\ \A e \in Emails :
                (/\ ~\E k \in DOMAIN users_db : users_db[k].email = e
                 /\ r.status = 401)
                => LET r2 == login([email |-> e, password |-> q], users_db, now, bk)
                   IN r2.status = r.status /\ r2.detail = r.detail

\* C13: no two stored users have the same email; register with a stored
\* email fails with 400 "Email already registered", and an update of a user
\* by itself to the email of another stored user fails with 400 "Email
\* already in use"; both leave users_db as it was.
C13_EmailsUnique ==
    /\ \A i \in DOMAIN users_db, j \in DOMAIN users_db :
         users_db[i].email = users_db[j].email => i = j
    /\ \A i \in DOMAIN users_db, password \in RegisterPasswords,
          bk \in Backends :
         LET o == register([email |-> users_db[i].email,
                            full_name |-> "Jane Doe", password |-> password],
                           users_db, user_id_counter,
                           "N9qo8uLOickgx2ZMRZoMye", now, bk)
         IN /\ o.res.status = 400
            /\ o.res.detail = "Email already registered"
            /\ o.db = users_db
    /\ \A i \in DOMAIN users_db, j \in DOMAIN users_db, name \in NewNames :
         i # j
         => LET o == update_user(i, [email |-> users_db[j].email,
                                     full_name |-> name],
                                 users_db[i], users_db)
            IN /\ o.res.status = 400
               /\ o.res.detail = "Email already in use"
               /\ o.db = users_db

\* with two users stored, one of them asked for the email of the other
C13_Witness ==
    /\ Cardinality(DOMAIN users_db) = 2
    /\ resp.op = "update_user"
    /\ resp.status = 400
    /\ resp.detail = "Email already in use"

\* the held token, sent as a Bearer header, authenticates
HeldAuthenticates ==
    get_current_user(Header("Bearer", held, now), users_db, now).ok

\* C14: for the user A whose login returned the held token and every stored
\* user id B other than A's, update_user(B) and delete_user(B) presenting
\* the token end in 403 and leave users_db unchanged; and an update or a
\* delete that went through was sent by the user it changed or removed.
C14_OwnUserOnly ==
    /\ \A B \in DOMAIN users_db :
         (HeldAuthenticates /\ B # heldFor)
         => /\ \A user_update \in UserUpdates :
                 LET o == Protected("update_user", B, user_update,
                                    Header("Bearer", held, now), users_db, now)
                 IN o.res.status = 403 /\ o.db = users_db
            /\ LET o == Protected("delete_user", B, NoUpdate,
                                  Header("Bearer", held, now), users_db, now)
               IN o.res.status = 403 /\ o.db = users_db
    /\ (resp.op \in {"update_user", "delete_user"} /\ resp.status \in {200, 204})
       => resp.uid = heldFor

\* C15: whenever the token returned by the login of the stored user U
\* authenticates, under either spelling of the scheme, the request runs as
\* the current_user with id U.
C15_PrincipalIsTokenOwner ==
    \A kind \in {"bearer", "Bearer"} :
        LET cu == get_current_user(Header(kind, held, now), users_db, now)
        IN (heldFor # 0 /\ cu.ok) => cu.value.id = heldFor

\* C16: a register that fails (duplicate email, or a password over 72
\* bytes) leaves users_db and user_id_counter as they were, an update_user
\* that fails leaves every user record as it was, and the ids register hands
\* out are strictly increasing and never reused: a new id is greater than
\* every id handed out before, and the counter never goes down.
C16_RejectedWriteChangesNothing ==
    [][/\ (resp'.op = "register" /\ resp'.status # 201)
          => users_db' = users_db /\ user_id_counter' = user_id_counter
       /\ (resp'.op = "update_user" /\ resp'.status # 200)
          => users_db' = users_db
       /\ user_id_counter' >= user_id_counter
       /\ \A id \in DOMAIN users_db' \ DOMAIN users_db :
            id >= user_id_counter /\ id < user_id_counter'
       /\ \A id \in DOMAIN users_db : id < user_id_counter]_vars

====
